---- MODULE Spec2Model ----
(***************************************************************************)
(* Model of tilck's safe ring buffer (kernel/safe_ringbuf.cpp), of the     *)
(* terminal action queue built on it (kernel/char/term.c) and of the       *)
(* child-wait protocol (kernel/waitpid.c), and of the terminal rendering    *)
(* engine that executes the queued actions (kernel/char/term.c).            *)
(*                                                                         *)
(* Execution contexts on the single core form a stack: the bottom frame is *)
(* a task, every frame above it an interrupt handler nested over the one   *)
(* below. Only the top frame runs; a frame resumes when the frames above   *)
(* it have returned.                                                       *)
(***************************************************************************)
EXTENDS Integers, Sequences, FiniteSets, TLC

\* ------------------------------------------------------------- bounds
\* capacity of the ring (max_elems given to safe_ringbuf_init)
MaxElems == 2
\* deepest nesting of contexts (one task plus nested interrupts)
MaxDepth == 3
\* number of ring-buffer / terminal calls issued in a run
MaxIds == 4

VARIABLES
    rb_s,           \* safe_ringbuf.s: the status word {read_pos, write_pos, full}
    rb_buf,         \* safe_ringbuf.buf: slot -> element
    nested_writes,  \* safe_ringbuf.nested_writes (DEBUG builds)
    DEBUG,          \* whether the build defines DEBUG
    ctx,            \* stack of execution contexts, the last one is running
    panicked,       \* the kernel stopped in panic() / VERIFY
    nextId,         \* next fresh element / action id
    accepted,       \* ghost: elements in the order their write CAS succeeded
    readSeq,        \* ghost: elements in the order successful reads returned them
    dispatched,     \* ghost: actions in the order term_execute_action finished
    tasks,          \* task directory: tid -> struct task (state "NONE": no such task)
    children,       \* curr->pi->children of the waiting process, in list order
    preempt,        \* preemption-disable depth of the core
    w,              \* the caller's activation of sys_waitpid: pc and locals
    user_mem,       \* the int at the caller's good user_wstatus address
    wlast,          \* ghost: the last finished sys_waitpid call and its result
    reaped,         \* ghost: the child ids sys_waitpid returned, in order
    current_row,    \* term.c statics of the rendering engine
    current_col,
    term_col_offset,
    scroll,
    max_scroll,
    total_buffer_rows,
    extra_buffer_rows,
    buffer,         \* cell index -> vga entry
    term_tabs,      \* cell index -> BOOLEAN, or "NULL" when not allocated
    vi,             \* the active video interface: "real" or "no_output"
    saved_vi,       \* "NULL" until a pause stores the active interface
    vi_caps,        \* the optional methods the real interface provides
    term_fault,     \* the kernel faulted on a NULL video interface
    calls,          \* ghost: the backend calls made by the last action
    last,           \* ghost: the last action executed and its arguments
    nacts           \* ghost: number of actions executed

rbvars == <<rb_s, rb_buf, nested_writes, DEBUG, ctx, panicked, nextId,
            accepted, readSeq, dispatched>>

waitvars == <<tasks, children, preempt, w, user_mem, wlast, reaped>>

termvars == <<current_row, current_col, term_col_offset, scroll, max_scroll,
              total_buffer_rows, extra_buffer_rows, buffer, term_tabs, vi,
              saved_vi, vi_caps, term_fault, calls, last, nacts>>

vars == <<rbvars, waitvars, termvars>>

\* ------------------------------------------------------- ring buffer
Stat(rp, wp, fl) == [read_pos |-> rp, write_pos |-> wp, full |-> fl]

rb_stat_is_empty_NoPos(s) == ~s.full

rb_stat_is_empty(s) == s.read_pos = s.write_pos /\ ~s.full

\* ghost: accepted writes whose read has not taken effect yet
Unread == Len(accepted) - Len(readSeq)

NoStat == Stat(0, 0, FALSE)

\* a context entering op ("write", "read", "exec") with element e
NewFrame(op, e) ==
    [op |-> op, pc |-> IF op = "read" THEN "r_begin" ELSE "w_begin",
     id |-> e, elem |-> e, cs |-> NoStat, ns |-> NoStat,
     ret |-> TRUE, was_empty |-> FALSE,
     g_empty |-> FALSE, pops |-> 0]

Top == ctx[Len(ctx)]

Running(pc) == /\ ~panicked
               /\ Len(ctx) > 0
               /\ Top.pc = pc

SetTop(f) == ctx' = [ctx EXCEPT ![Len(ctx)] = f]

InitRB ==
    /\ rb_s = Stat(0, 0, FALSE)
    /\ rb_buf = [i \in 0..(MaxElems - 1) |-> 0]
    /\ nested_writes = 0
    /\ DEBUG \in BOOLEAN
    /\ ctx = <<>>
    /\ panicked = FALSE
    /\ nextId = 1
    /\ accepted = <<>>
    /\ readSeq = <<>>
    /\ dispatched = <<>>

\* begin_debug_write_checks
WBegin ==
    /\ Running("w_begin")
    /\ nested_writes' = IF DEBUG THEN nested_writes + 1 ELSE nested_writes
    /\ SetTop([Top EXCEPT !.pc = "w_load_cs"])
    /\ UNCHANGED <<waitvars, termvars, rb_s, rb_buf, DEBUG, panicked, nextId, accepted, readSeq,
                   dispatched>>

\* cs.raw = rb->s.raw
WLoadCs ==
    /\ Running("w_load_cs")
    /\ SetTop([Top EXCEPT !.pc = "w_load_ns", !.cs = rb_s])
    /\ UNCHANGED <<waitvars, termvars, rb_s, rb_buf, nested_writes, DEBUG, panicked, nextId,
                   accepted, readSeq, dispatched>>

NextWritePos_NoWrap(ns) == ns.write_pos + 1

NextWritePos(ns) == (ns.write_pos + 1) % MaxElems

WLoadNs_NoFullCheck ==
    /\ Running("w_load_ns")
    /\ SetTop([Top EXCEPT !.pc = "w_cas",
                  !.ns = Stat(rb_s.read_pos, NextWritePos(rb_s),
                              NextWritePos(rb_s) = rb_s.read_pos \/ rb_s.full)])
    /\ UNCHANGED <<waitvars, termvars, rb_s, rb_buf, nested_writes, DEBUG, panicked, nextId,
                   accepted, readSeq, dispatched>>

\* ns.raw = rb->s.raw; the full check; the next write position
WLoadNs ==
    /\ Running("w_load_ns")
    /\ LET ns == rb_s
           nwp == NextWritePos(ns)
       IN IF Top.cs.full
          THEN SetTop([Top EXCEPT !.pc = "w_out", !.ns = ns,
                                  !.was_empty = FALSE, !.ret = FALSE])
          ELSE SetTop([Top EXCEPT !.pc = "w_cas",
                         !.ns = Stat(ns.read_pos, nwp,
                                     IF nwp = ns.read_pos THEN TRUE ELSE ns.full)])
    /\ UNCHANGED <<waitvars, termvars, rb_s, rb_buf, nested_writes, DEBUG, panicked, nextId,
                   accepted, readSeq, dispatched>>

\* atomic_cas_weak(&rb->s.raw, &cs, ns): the position advance
WCas ==
    /\ Running("w_cas")
    /\ \/ /\ rb_s = Top.cs
          /\ rb_s' = Top.ns
          /\ accepted' = Append(accepted, Top.elem)
          /\ SetTop([Top EXCEPT !.pc = "w_copy", !.g_empty = (Unread = 0)])
       \/ \* the compare failed, or the weak CAS failed spuriously
          /\ SetTop([Top EXCEPT !.pc = "w_load_cs"])
          /\ UNCHANGED <<rb_s, accepted>>
    /\ UNCHANGED <<waitvars, termvars, rb_buf, nested_writes, DEBUG, panicked, nextId, readSeq,
                   dispatched>>

WriteSlot_Next(f) == f.ns.write_pos

\* the slot the element is copied to
WriteSlot(f) == f.cs.write_pos

\* memcpy into the slot; *was_empty = rb_stat_is_empty(&cs)
WCopy ==
    /\ Running("w_copy")
    /\ rb_buf' = [rb_buf EXCEPT ![WriteSlot(Top)] = Top.elem]
    /\ SetTop([Top EXCEPT !.pc = "w_out",
                          !.was_empty = rb_stat_is_empty(Top.cs)])
    /\ UNCHANGED <<waitvars, termvars, rb_s, nested_writes, DEBUG, panicked, nextId, accepted,
                   readSeq, dispatched>>

\* end_debug_write_checks; return ret
WOut ==
    /\ Running("w_out")
    /\ nested_writes' = IF DEBUG THEN nested_writes - 1 ELSE nested_writes
    /\ SetTop([Top EXCEPT !.pc = IF Top.op = "exec" THEN "e_verify" ELSE "ret"])
    /\ UNCHANGED <<waitvars, termvars, rb_s, rb_buf, DEBUG, panicked, nextId, accepted, readSeq,
                   dispatched>>

RBegin_NoCheck ==
    /\ Running("r_begin")
    /\ SetTop([Top EXCEPT !.pc = "r_load_cs", !.ret = TRUE])
    /\ UNCHANGED <<waitvars, termvars, rb_s, rb_buf, nested_writes, DEBUG, panicked, nextId,
                   accepted, readSeq, dispatched>>

\* begin_debug_read_checks
RBegin ==
    /\ Running("r_begin")
    /\ IF DEBUG /\ nested_writes # 0
       THEN /\ panicked' = TRUE
            /\ UNCHANGED ctx
       ELSE /\ SetTop([Top EXCEPT !.pc = "r_load_cs", !.ret = TRUE])
            /\ UNCHANGED panicked
    /\ UNCHANGED <<waitvars, termvars, rb_s, rb_buf, nested_writes, DEBUG, nextId, accepted,
                   readSeq, dispatched>>

RLoadCs ==
    /\ Running("r_load_cs")
    /\ SetTop([Top EXCEPT !.pc = "r_load_ns", !.cs = rb_s])
    /\ UNCHANGED <<waitvars, termvars, rb_s, rb_buf, nested_writes, DEBUG, panicked, nextId,
                   accepted, readSeq, dispatched>>

\* where a frame goes when safe_ringbuf_read_elem returns
AfterRead(f, ok) ==
    IF f.op = "exec" THEN (IF ok THEN "e_dispatch" ELSE "ret") ELSE "ret"

\* ns.raw = rb->s.raw; the empty check
RLoadNs ==
    /\ Running("r_load_ns")
    /\ IF rb_stat_is_empty(Top.cs)
       THEN SetTop([Top EXCEPT !.pc = AfterRead(Top, FALSE), !.ns = rb_s,
                               !.ret = FALSE])
       ELSE SetTop([Top EXCEPT !.pc = "r_copy", !.ns = rb_s])
    /\ UNCHANGED <<waitvars, termvars, rb_s, rb_buf, nested_writes, DEBUG, panicked, nextId,
                   accepted, readSeq, dispatched>>

RCopy_KeepFull ==
    /\ Running("r_copy")
    /\ SetTop([Top EXCEPT !.pc = "r_cas",
                  !.elem = rb_buf[Top.cs.read_pos],
                  !.ns = Stat((Top.ns.read_pos + 1) % MaxElems,
                              Top.ns.write_pos, Top.ns.full)])
    /\ UNCHANGED <<waitvars, termvars, rb_s, rb_buf, nested_writes, DEBUG, panicked, nextId,
                   accepted, readSeq, dispatched>>

\* memcpy out of the slot; the next read position
RCopy ==
    /\ Running("r_copy")
    /\ SetTop([Top EXCEPT !.pc = "r_cas",
                  !.elem = rb_buf[Top.cs.read_pos],
                  !.ns = Stat((Top.ns.read_pos + 1) % MaxElems,
                              Top.ns.write_pos, FALSE)])
    /\ UNCHANGED <<waitvars, termvars, rb_s, rb_buf, nested_writes, DEBUG, panicked, nextId,
                   accepted, readSeq, dispatched>>

RCas ==
    /\ Running("r_cas")
    /\ \/ /\ rb_s = Top.cs
          /\ rb_s' = Top.ns
          /\ readSeq' = Append(readSeq, Top.elem)
          /\ SetTop([Top EXCEPT !.pc = AfterRead(Top, TRUE),
                                !.pops = IF @ < MaxIds THEN @ + 1 ELSE @])
       \/ /\ SetTop([Top EXCEPT !.pc = "r_load_cs"])
          /\ UNCHANGED <<rb_s, readSeq>>
    /\ UNCHANGED <<waitvars, termvars, rb_buf, nested_writes, DEBUG, panicked, nextId, accepted,
                   dispatched>>

\* the call returns to the context below
Return ==
    /\ Running("ret")
    /\ ctx' = SubSeq(ctx, 1, Len(ctx) - 1)
    /\ UNCHANGED <<waitvars, termvars, rb_s, rb_buf, nested_writes, DEBUG, panicked, nextId,
                   accepted, readSeq, dispatched>>

RBStep == \/ WBegin \/ WLoadCs \/ WLoadNs \/ WCas \/ WCopy \/ WOut
          \/ RBegin \/ RLoadCs \/ RLoadNs \/ RCopy \/ RCas
          \/ Return

Call(op) ==
    /\ ~panicked
    /\ Len(ctx) < MaxDepth
    /\ nextId <= MaxIds
    /\ ctx' = Append(ctx, NewFrame(op, nextId))
    /\ nextId' = nextId + 1
    /\ UNCHANGED <<waitvars, termvars, rb_s, rb_buf, nested_writes, DEBUG, panicked, accepted,
                   readSeq, dispatched>>

\* a writer enters safe_ringbuf_write_elem, possibly nested over any context
WriteCall == Call("write")

\* the reader enters safe_ringbuf_read_elem: no write in flight, not reentered
ReadCall ==
    /\ ctx = <<>>
    /\ Call("read")

NextRB == WriteCall \/ ReadCall \/ RBStep


\* --------------------------------------------- terminal action queue
DrainOwner_Always(f) == TRUE

\* if (was_empty): the caller whose push found the queue empty drains it
DrainOwner(f) == f.was_empty

EVerify_NoHalt ==
    /\ Running("e_verify")
    /\ SetTop([Top EXCEPT !.pc = IF DrainOwner(Top) THEN "r_begin" ELSE "ret"])
    /\ UNCHANGED <<waitvars, termvars, rb_s, rb_buf, nested_writes, DEBUG, panicked, nextId,
                   accepted, readSeq, dispatched>>

\* VERIFY(written); if (was_empty) enter the drain loop
EVerify ==
    /\ Running("e_verify")
    /\ IF ~Top.ret
       THEN /\ panicked' = TRUE
            /\ UNCHANGED ctx
       ELSE /\ SetTop([Top EXCEPT !.pc = IF DrainOwner(Top) THEN "r_begin"
                                                            ELSE "ret"])
            /\ UNCHANGED panicked
    /\ UNCHANGED <<waitvars, termvars, rb_s, rb_buf, nested_writes, DEBUG, nextId, accepted,
                   readSeq, dispatched>>

\* term_execute_action(&a) runs to its end; the loop reads again
EDispatch ==
    /\ Running("e_dispatch")
    /\ dispatched' = Append(dispatched, Top.elem)
    /\ SetTop([Top EXCEPT !.pc = "r_begin"])
    /\ UNCHANGED <<waitvars, termvars, rb_s, rb_buf, nested_writes, DEBUG, panicked, nextId,
                   accepted, readSeq>>

\* a context (the task, or an interrupt nested over the running context)
\* enters term_execute_or_enqueue_action with a fresh action
TermCall == Call("exec")

NextTerm == TermCall \/ RBStep \/ EVerify \/ EDispatch


\* ------------------------------------------- terminal rendering engine
\* rows and columns given to init_term
TermRows == 2
TermCols == 12
\* number of terminal actions executed in a run
MaxActs == 3

term_tab_size == 8
\* make_color(DEFAULT_FG_COLOR, DEFAULT_BG_COLOR), and another color
DefaultColor == 7
AltColor == 2
\* the value of a cell of the kmalloc'ed buffer that was never written
Uninit == 65535
TERM_ERASE_C == 127


\* a u32 is held as two 16-bit halves, so that sums wrap at 2^32
W16 == 65536

Wide(x) == [hi |-> x \div W16, lo |-> x % W16]

Narrow(x) == x.hi * W16 + x.lo

u32_add(x, y) ==
    [hi |-> (x.hi + y.hi + ((x.lo + y.lo) \div W16)) % W16,
     lo |-> (x.lo + y.lo) % W16]

u32_gt(x, y) == x.hi > y.hi \/ (x.hi = y.hi /\ x.lo > y.lo)

u32_inc(x) == Narrow(u32_add(Wide(x), Wide(1)))

\* the largest u32
U32Max == [hi |-> W16 - 1, lo |-> W16 - 1]

\* the bytes the model writes
Ch == [nl |-> 10, cr |-> 13, tab |-> 9, esc |-> 27, space |-> 32,
       a |-> 97, b |-> 98]

MIN(x, y) == IF x < y THEN x ELSE y

MAX(x, y) == IF x > y THEN x ELSE y

make_vgaentry(c, color) == c + 256 * color

vgaentry_get_color(e) == e \div 256

round_up_at(n, unit) == ((n + unit - 1) \div unit) * unit

\* the engine's mutable statics as one value, threaded through the handlers
Cur ==
    [current_row |-> current_row, current_col |-> current_col,
     term_col_offset |-> term_col_offset, scroll |-> scroll,
     max_scroll |-> max_scroll, buffer |-> buffer, term_tabs |-> term_tabs,
     vi |-> vi, saved_vi |-> saved_vi, fault |-> FALSE, calls |-> <<>>]

\* vi->m(a1, a2, a3) on the active interface
vi_call(T, m, a1, a2, a3) ==
    [T EXCEPT !.calls = Append(@, [vi |-> T.vi, m |-> m, a1 |-> a1,
                                   a2 |-> a2, a3 |-> a3])]

\* if (vi->m): the no-output interface has every method
vi_has(T, m) == T.vi = "no_output" \/ m \in vi_caps

vi_call_opt(T, m) == IF vi_has(T, m) THEN vi_call(T, m, 0, 0, 0) ELSE T

BufRow(T, row) == (row + T.scroll) % total_buffer_rows

BufIdx(T, row, col) == BufRow(T, row) * TermCols + col

buffer_set_entry(T, row, col, e) ==
    [T EXCEPT !.buffer[BufIdx(T, row, col)] = e]

buffer_get_entry(T, row, col) == T.buffer[BufIdx(T, row, col)]

ts_is_at_bottom(T) == T.scroll = T.max_scroll

RECURSIVE RedrawFrom(_, _)
RedrawFrom(T, row) ==
    IF row >= TermRows THEN T
    ELSE RedrawFrom(vi_call(T, "set_row", row, BufRow(T, row), 1), row + 1)

term_redraw(T) == RedrawFrom(T, 0)

\* ts_set_scroll without the lower limit of the scrollback
ts_set_scroll_NoMin(T, requested_scroll) ==
    LET req == IF u32_gt(requested_scroll, Wide(T.max_scroll))
               THEN T.max_scroll ELSE Narrow(requested_scroll)
    IN IF req = T.scroll THEN T
       ELSE term_redraw([T EXCEPT !.scroll = req])

ts_set_scroll(T, requested_scroll) ==
    LET min_scroll == IF T.max_scroll > extra_buffer_rows
                      THEN T.max_scroll - extra_buffer_rows ELSE 0
        lower == IF u32_gt(Wide(min_scroll), requested_scroll)
                 THEN Wide(min_scroll) ELSE requested_scroll
        req == IF u32_gt(lower, Wide(T.max_scroll))
               THEN T.max_scroll ELSE Narrow(lower)
    IN IF req = T.scroll THEN T
       ELSE term_redraw([T EXCEPT !.scroll = req])

\* ts_scroll_up going to line 0 itself when lines exceeds scroll
ts_scroll_up_ToZero(T, lines) ==
    IF u32_gt(lines, Wide(T.scroll))
    THEN (IF T.scroll = 0 THEN T ELSE term_redraw([T EXCEPT !.scroll = 0]))
    ELSE ts_set_scroll(T, Wide(T.scroll - Narrow(lines)))

ts_scroll_up(T, lines) ==
    IF u32_gt(lines, Wide(T.scroll)) THEN ts_set_scroll(T, Wide(0))
    ELSE ts_set_scroll(T, Wide(T.scroll - Narrow(lines)))

ts_scroll_down(T, lines) ==
    ts_set_scroll(T, u32_add(Wide(T.scroll), lines))

ts_scroll_to_bottom(T) ==
    IF T.scroll # T.max_scroll THEN ts_set_scroll(T, Wide(T.max_scroll))
    ELSE T

ts_buf_clear_row(T, row, color) ==
    [T EXCEPT !.buffer =
        [i \in DOMAIN T.buffer |->
            IF i \div TermCols = BufRow(T, row)
            THEN make_vgaentry(Ch.space, color) ELSE T.buffer[i]]]

ts_clear_row(T, row, color) ==
    vi_call(ts_buf_clear_row(T, row, color), "clear_row", row, color, 0)

\* vi->move_cursor(current_row, current_col, color of the cell under it)
MoveCursorToCurrent(T) ==
    vi_call(T, "move_cursor", T.current_row, T.current_col,
            vgaentry_get_color(buffer_get_entry(T, T.current_row,
                                                T.current_col)))

term_action_scroll_up(T, lines) ==
    LET T1 == ts_scroll_up(T, lines)
        T2 == IF ~ts_is_at_bottom(T1) THEN vi_call(T1, "disable_cursor", 0, 0, 0)
              ELSE MoveCursorToCurrent(vi_call(T1, "enable_cursor", 0, 0, 0))
    IN vi_call_opt(T2, "flush_buffers")

term_action_scroll_down(T, lines) ==
    LET T1 == ts_scroll_down(T, lines)
        T2 == IF ts_is_at_bottom(T1)
              THEN MoveCursorToCurrent(vi_call(T1, "enable_cursor", 0, 0, 0))
              ELSE T1
    IN vi_call_opt(T2, "flush_buffers")

term_internal_incr_row(T, color) ==
    LET T0 == [T EXCEPT !.term_col_offset = 0]
    IN IF T0.current_row < TermRows - 1
       THEN [T0 EXCEPT !.current_row = @ + 1]
       ELSE LET T1 == [T0 EXCEPT !.max_scroll = u32_inc(@)]
                T2 == IF vi_has(T1, "scroll_one_line_up")
                      THEN vi_call([T1 EXCEPT !.scroll = u32_inc(@)],
                                   "scroll_one_line_up", 0, 0, 0)
                      ELSE ts_set_scroll(T1, Wide(T1.max_scroll))
            IN ts_clear_row(T2, TermRows - 1, color)

term_internal_write_printable_char(T, c, color) ==
    LET entry == make_vgaentry(c, color)
        T1 == buffer_set_entry(T, T.current_row, T.current_col, entry)
        T2 == vi_call(T1, "set_char_at", T.current_row, T.current_col, entry)
    IN [T2 EXCEPT !.current_col = @ + 1]

\* term_tabs when kzmalloc gave nothing
NullTabs == <<>>

\* if (term_tabs)
has_tabs(T) == DOMAIN T.term_tabs # {}

TabIdx(T, col) == T.current_row * TermCols + col

term_internal_write_tab(T, color) ==
    LET rem == TermCols - T.current_col - 1
    IN IF ~has_tabs(T)
       THEN (IF rem # 0
             THEN term_internal_write_printable_char(T, Ch.space, color)
             ELSE T)
       ELSE LET tab_col == MIN(round_up_at(T.current_col + 1, term_tab_size),
                               TermCols - 2)
            IN [T EXCEPT !.term_tabs[TabIdx(T, tab_col)] = TRUE,
                         !.current_col = tab_col + 1]

RECURSIVE BackspaceLoop(_, _)
BackspaceLoop(T, i) ==
    IF i < 0 THEN T
    ELSE IF T.current_col = 0 \/ T.current_col = T.term_col_offset THEN T
    ELSE IF T.term_tabs[TabIdx(T, T.current_col - 1)] THEN T
    ELSE BackspaceLoop(IF i # 0 THEN [T EXCEPT !.current_col = @ - 1] ELSE T,
                       i - 1)

term_internal_write_backspace(T, color) ==
    IF T.current_col = 0 \/ T.current_col <= T.term_col_offset THEN T
    ELSE LET space_entry == make_vgaentry(Ch.space, color)
             T1 == [T EXCEPT !.current_col = @ - 1]
         IN IF ~has_tabs(T1) \/ ~T1.term_tabs[TabIdx(T1, T1.current_col)]
            THEN vi_call(buffer_set_entry(T1, T1.current_row, T1.current_col,
                                          space_entry),
                         "set_char_at", T1.current_row, T1.current_col,
                         space_entry)
            ELSE BackspaceLoop(
                    [T1 EXCEPT !.term_tabs[TabIdx(T1, T1.current_col)] = FALSE],
                    term_tab_size - 1)

\* kopt_serial_mode is not TERM_SERIAL_CONSOLE
term_internal_write_char2(T, c, color) ==
    IF c = Ch.esc THEN T
    ELSE IF c = Ch.nl THEN term_internal_incr_row(T, color)
    ELSE IF c = Ch.cr THEN [T EXCEPT !.current_col = 0]
    ELSE IF c = Ch.tab THEN term_internal_write_tab(T, color)
    ELSE IF c = TERM_ERASE_C THEN term_internal_write_backspace(T, color)
    ELSE LET T1 == term_internal_write_printable_char(T, c, color)
         IN IF T1.current_col = TermCols
            THEN term_internal_incr_row([T1 EXCEPT !.current_col = 0], color)
            ELSE T1

RECURSIVE WriteChars(_, _, _, _)
WriteChars(T, buf, i, color) ==
    IF i > Len(buf) THEN T
    ELSE WriteChars(term_internal_write_char2(T, buf[i], color), buf,
                    i + 1, color)

\* term_action_write without the ts_scroll_to_bottom at its start
term_action_write_NoSnap(T, buf, color) ==
    LET T1 == vi_call(T, "enable_cursor", 0, 0, 0)
        T2 == WriteChars(T1, buf, 1, color)
    IN vi_call_opt(MoveCursorToCurrent(T2), "flush_buffers")

\* no filter is installed
term_action_write(T, buf, color) ==
    LET T1 == vi_call(ts_scroll_to_bottom(T), "enable_cursor", 0, 0, 0)
        T2 == WriteChars(T1, buf, 1, color)
    IN vi_call_opt(MoveCursorToCurrent(T2), "flush_buffers")

term_action_set_col_offset(T, off) == [T EXCEPT !.term_col_offset = off]

\* term_action_move_ch_and_cur taking row and col as given
term_action_move_ch_and_cur_NoClamp(T, row, col) ==
    LET T1 == [T EXCEPT !.current_row = row, !.current_col = col]
    IN vi_call_opt(MoveCursorToCurrent(T1), "flush_buffers")

term_action_move_ch_and_cur(T, row, col) ==
    LET T1 == [T EXCEPT !.current_row = MIN(MAX(row, 0), TermRows - 1),
                        !.current_col = MIN(MAX(col, 0), TermCols - 1)]
    IN vi_call_opt(MoveCursorToCurrent(T1), "flush_buffers")

term_action_move_ch_and_cur_rel(T, dx, dy) ==
    LET T1 == [T EXCEPT
                 !.current_row = MIN(MAX(T.current_row + dx, 0), TermRows - 1),
                 !.current_col = MIN(MAX(T.current_col + dy, 0), TermCols - 1)]
    IN vi_call_opt(MoveCursorToCurrent(T1), "flush_buffers")

RECURSIVE ClearRows(_, _, _)
ClearRows(T, from, to) ==
    IF from >= to THEN T
    ELSE ClearRows(ts_clear_row(T, from, DefaultColor), from + 1, to)

term_action_reset(T) ==
    LET T1 == term_action_move_ch_and_cur(
                 vi_call(T, "enable_cursor", 0, 0, 0), 0, 0)
        T2 == [T1 EXCEPT !.scroll = 0, !.max_scroll = 0]
        T3 == ClearRows(T2, 0, TermRows)
    IN IF ~has_tabs(T3) THEN T3
       ELSE [T3 EXCEPT !.term_tabs = [i \in DOMAIN @ |-> FALSE]]

RECURSIVE EraseCells(_, _, _)
EraseCells(T, col, end) ==
    IF col >= end THEN T
    ELSE LET entry == make_vgaentry(Ch.space, DefaultColor)
         IN EraseCells(vi_call(buffer_set_entry(T, T.current_row, col, entry),
                               "set_char_at", T.current_row, col, entry),
                       col + 1, end)

term_action_erase_in_display(T, mode) ==
    IF mode = 0
    THEN vi_call_opt(ClearRows(EraseCells(T, T.current_col, TermCols),
                               T.current_row + 1, TermRows),
                     "flush_buffers")
    ELSE IF mode = 1
    THEN vi_call_opt(EraseCells(ClearRows(T, 0, T.current_row),
                                0, T.current_col),
                     "flush_buffers")
    ELSE IF mode = 2
    THEN vi_call_opt(ClearRows(T, 0, TermRows), "flush_buffers")
    ELSE IF mode = 3
    THEN vi_call_opt(vi_call(term_action_reset(T), "move_cursor",
                             T.current_row, T.current_col, DefaultColor),
                     "flush_buffers")
    ELSE T

\* term_action_erase_in_line whose default case breaks instead of returning
term_action_erase_in_line_Break(T, mode) ==
    IF mode = 0
    THEN vi_call_opt(EraseCells(T, T.current_col, TermCols), "flush_buffers")
    ELSE IF mode = 1
    THEN vi_call_opt(EraseCells(T, 0, T.current_col), "flush_buffers")
    ELSE IF mode = 2
    THEN vi_call_opt(ts_clear_row(T, T.current_row, DefaultColor),
                     "flush_buffers")
    ELSE vi_call_opt(T, "flush_buffers")

term_action_erase_in_line(T, mode) ==
    IF mode = 0
    THEN vi_call_opt(EraseCells(T, T.current_col, TermCols), "flush_buffers")
    ELSE IF mode = 1
    THEN vi_call_opt(EraseCells(T, 0, T.current_col), "flush_buffers")
    ELSE IF mode = 2
    THEN vi_call_opt(ts_clear_row(T, T.current_row,
                        vgaentry_get_color(make_vgaentry(Ch.space,
                                                         DefaultColor))),
                     "flush_buffers")
    ELSE T

\* memcpy(&buffer[term_cols * d], &buffer[term_cols * s], term_cols * 2)
CopyRow(T, d, s) ==
    [T EXCEPT !.buffer =
        [i \in DOMAIN T.buffer |->
            IF i \div TermCols = d THEN T.buffer[s * TermCols + (i % TermCols)]
            ELSE T.buffer[i]]]

RECURSIVE BufClearRows(_, _, _)
BufClearRows(T, from, to) ==
    IF from >= to THEN T
    ELSE BufClearRows(ts_buf_clear_row(T, from, DefaultColor), from + 1, to)

RECURSIVE CopyRowsUp(_, _, _)
CopyRowsUp(T, row, n) ==
    IF row >= TermRows - n THEN T
    ELSE CopyRowsUp(CopyRow(T, (T.scroll + row) % total_buffer_rows,
                            (T.scroll + row + n) % total_buffer_rows),
                    row + 1, n)

term_action_non_buf_scroll_up(T, n0) ==
    LET n == MIN(n0, TermRows)
    IN term_redraw(BufClearRows(CopyRowsUp(T, 0, n), TermRows - n, TermRows))

RECURSIVE CopyRowsDown(_, _, _)
CopyRowsDown(T, row, n) ==
    IF row < 0 THEN T
    ELSE CopyRowsDown(CopyRow(T, (T.scroll + row + n) % total_buffer_rows,
                              (T.scroll + row) % total_buffer_rows),
                      row - 1, n)

term_action_non_buf_scroll_down(T, n0) ==
    LET n == MIN(n0, TermRows)
    IN term_redraw(BufClearRows(CopyRowsDown(T, TermRows - n - 1, n), 0, n))

term_action_pause_video_output(T) ==
    LET T1 == vi_call(vi_call_opt(T, "disable_static_elems_refresh"),
                      "disable_cursor", 0, 0, 0)
    IN [T1 EXCEPT !.saved_vi = T1.vi, !.vi = "no_output"]

\* with saved_vi still NULL, term_redraw calls through a null interface
term_action_restart_video_output(T) ==
    LET T0 == [T EXCEPT !.vi = T.saved_vi]
    IN IF T0.vi = "NULL" THEN [T0 EXCEPT !.fault = TRUE]
       ELSE vi_call_opt(
               vi_call_opt(vi_call(term_redraw(T0), "enable_cursor", 0, 0, 0),
                           "redraw_static_elements"),
               "enable_static_elems_refresh")

\* the optional methods a video interface may leave NULL
OptionalMethods ==
    {"flush_buffers", "scroll_one_line_up", "redraw_static_elements",
     "disable_static_elems_refresh", "enable_static_elems_refresh"}

BlankBuffer(rows, clean) ==
    [i \in 0..(rows * TermCols - 1) |->
        IF i \div TermCols < clean THEN make_vgaentry(Ch.space, DefaultColor)
        ELSE Uninit]

NoAction == [kind |-> "none", arg1 |-> 0, arg2 |-> 0]

\* the state init_term leaves: the buffer and the tab marks allocated, the
\* tab marks missing, or neither (the failsafe buffer, no scrollback)
InitTerm ==
    /\ \E alloc \in {"all", "no_tabs", "failsafe"} :
          /\ extra_buffer_rows = IF alloc = "failsafe" THEN 0 ELSE 9 * TermRows
          /\ total_buffer_rows = TermRows + extra_buffer_rows
          /\ buffer = BlankBuffer(total_buffer_rows, TermRows)
          /\ term_tabs = IF alloc = "all"
                         THEN [i \in 0..(TermRows * TermCols - 1) |-> FALSE]
                         ELSE NullTabs
    /\ vi_caps \in {{}, OptionalMethods}
    /\ current_row = 0 /\ current_col = 0 /\ term_col_offset = 0
    /\ scroll = 0 /\ max_scroll = 0
    /\ vi = "real" /\ saved_vi = "NULL"
    /\ term_fault = FALSE /\ calls = <<>> /\ last = NoAction /\ nacts = 0

\* an action is taken from the queue while the engine is alive
CanExecute == nacts < MaxActs /\ ~term_fault

\* term_execute_action: run one handler and keep what it left
Execute(T, kind, arg1, arg2) ==
    /\ current_row' = T.current_row /\ current_col' = T.current_col
    /\ term_col_offset' = T.term_col_offset
    /\ scroll' = T.scroll /\ max_scroll' = T.max_scroll
    /\ buffer' = T.buffer /\ term_tabs' = T.term_tabs
    /\ vi' = T.vi /\ saved_vi' = T.saved_vi
    /\ term_fault' = T.fault /\ calls' = T.calls
    /\ last' = [kind |-> kind, arg1 |-> arg1, arg2 |-> arg2]
    /\ nacts' = nacts + 1
    /\ UNCHANGED <<total_buffer_rows, extra_buffer_rows, vi_caps,
                   rbvars, waitvars>>

Newlines(n) == [i \in 1..n |-> Ch.nl]

\* the strings written: plain text, the control bytes, a tab between two
\* letters, a tab and its erasure, a line that wraps, and enough newlines
\* to push lines out of the scrollback
WriteBufs ==
    {<<Ch.a>>, <<Ch.nl>>, <<Ch.cr>>, <<Ch.tab>>, <<TERM_ERASE_C>>,
     <<Ch.a, Ch.tab, Ch.b>>, <<Ch.tab, TERM_ERASE_C>>,
     Newlines(10 * TermRows)}

ScrollLines == {Wide(0), Wide(1), U32Max}

MoveArgs ==
    {<<0, c>> : c \in 0..(TermCols - 1)}
       \cup {<<-1, -1>>, <<TermRows, TermCols>>}

a_write ==
    /\ CanExecute
    /\ \E buf \in WriteBufs :
          \E color \in IF buf = <<Ch.a>> THEN {DefaultColor, AltColor}
                        ELSE {DefaultColor} :
             Execute(term_action_write(Cur, buf, color), "write", buf, color)

a_scroll_up ==
    /\ CanExecute
    /\ \E lines \in ScrollLines :
          Execute(term_action_scroll_up(Cur, lines), "scroll_up", lines, 0)

a_scroll_down ==
    /\ CanExecute
    /\ \E lines \in ScrollLines :
          Execute(term_action_scroll_down(Cur, lines), "scroll_down", lines, 0)

a_set_col_offset ==
    /\ CanExecute
    /\ \E off \in {0, 4} :
          Execute(term_action_set_col_offset(Cur, off), "set_col_offset", off, 0)

a_move_ch_and_cur ==
    /\ CanExecute
    /\ \E rc \in MoveArgs :
          Execute(term_action_move_ch_and_cur(Cur, rc[1], rc[2]),
                  "move_ch_and_cur", rc[1], rc[2])

a_move_ch_and_cur_rel ==
    /\ CanExecute
    /\ \E d \in {<<-1, -1>>, <<1, 1>>} :
          Execute(term_action_move_ch_and_cur_rel(Cur, d[1], d[2]),
                  "move_ch_and_cur_rel", d[1], d[2])

a_reset ==
    /\ CanExecute
    /\ Execute(term_action_reset(Cur), "reset", 0, 0)

a_erase_in_display ==
    /\ CanExecute
    /\ \E mode \in -1..4 :
          Execute(term_action_erase_in_display(Cur, mode),
                  "erase_in_display", mode, 0)

a_erase_in_line ==
    /\ CanExecute
    /\ \E mode \in -1..3 :
          Execute(term_action_erase_in_line(Cur, mode), "erase_in_line", mode, 0)

a_non_buf_scroll_up ==
    /\ CanExecute
    /\ \E n \in {1, TermRows + 1} :
          Execute(term_action_non_buf_scroll_up(Cur, n),
                  "non_buf_scroll_up", n, 0)

a_non_buf_scroll_down ==
    /\ CanExecute
    /\ \E n \in {1, TermRows + 1} :
          Execute(term_action_non_buf_scroll_down(Cur, n),
                  "non_buf_scroll_down", n, 0)

a_pause_video_output ==
    /\ CanExecute
    /\ Execute(term_action_pause_video_output(Cur), "pause_video_output", 0, 0)

a_restart_video_output ==
    /\ CanExecute
    /\ Execute(term_action_restart_video_output(Cur),
               "restart_video_output", 0, 0)

NextRender ==
    \/ a_write
    \/ a_scroll_up
    \/ a_scroll_down
    \/ a_set_col_offset
    \/ a_move_ch_and_cur
    \/ a_move_ch_and_cur_rel
    \/ a_reset
    \/ a_erase_in_display
    \/ a_erase_in_line
    \/ a_non_buf_scroll_up
    \/ a_non_buf_scroll_down
    \/ a_pause_video_output
    \/ a_restart_video_output

\* the engine before init_term, for runs that never use the terminal
QuietTerm ==
    /\ current_row = 0 /\ current_col = 0 /\ term_col_offset = 0
    /\ scroll = 0 /\ max_scroll = 0
    /\ total_buffer_rows = 0 /\ extra_buffer_rows = 0
    /\ buffer = <<>> /\ term_tabs = NullTabs
    /\ vi = "NULL" /\ saved_vi = "NULL" /\ vi_caps = {}
    /\ term_fault = FALSE /\ calls = <<>> /\ last = NoAction /\ nacts = 0

\* ------------------------------------------------- child-wait protocol
\* number of sys_waitpid calls the caller issues in a run
MaxCalls == 2

ECHILD == 10
EFAULT == 14
WNOHANG == 1

Tids == 1..4
\* the task that calls sys_waitpid (its tid is its process id)
Caller == 1
\* tasks that may be children of the caller; task 4 is never its child
MaybeChildren == {2, 3}
Pgids == {1, 2}
ExitStatuses == {0, 1}
\* the pid argument: a group, any child, the caller's group, a task id
PidArgs == {-2, -1, 0, 2, 3, 4}
UserPtrs == {"NULL", "ok", "bad"}

NoWobj == [type |-> "NONE", ptr |-> 0, list |-> 0]

NewTask(state, parent, pg) ==
    [state |-> state, parent_pid |-> parent, pgid |-> pg, exit_wstatus |-> 0,
     wobj |-> NoWobj, tasks_waiting_list |-> <<>>]

IdleW == [pc |-> "idle", pid |-> 0, user |-> "NULL", opts |-> 0,
          chtask |-> 0, chtask_tid |-> -1, child_count |-> 0, wait_list |-> 0,
          g_nzombie |-> 0, g_status |-> -1, g_nkids |-> 0, g_pgid |-> 0,
          g_wakes |-> 0]

\* calls finished so far (n), and the arguments and result of the last one
NoCall == [n |-> 0, pid |-> 0, opts |-> 0, user |-> "NULL", ret |-> 0,
           chtask |-> 0, nmatch |-> 0, nzombie |-> 0, intree |-> FALSE,
           cstatus |-> -1, nkids |-> 0, cpgid |-> 0]

Range(q) == {q[i] : i \in 1..Len(q)}

InitWait ==
    /\ \E kids \in {<<>>, <<2>>, <<3>>, <<2, 3>>, <<3, 2>>} :
       \E pg \in [MaybeChildren -> Pgids] :
          /\ children = kids
          /\ tasks = [t \in Tids |->
                        IF t = Caller THEN NewTask("RUNNABLE", 0, 1)
                        ELSE IF t \in Range(kids)
                             THEN NewTask("RUNNABLE", Caller, pg[t])
                        ELSE IF t = 4 THEN NewTask("RUNNABLE", 0, 1)
                        ELSE NewTask("NONE", 0, 0)]
    /\ preempt = 0
    /\ w = IdleW
    /\ user_mem = -1
    /\ wlast = NoCall
    /\ reaped = <<>>

\* get_task(tid): the task, or NULL (0)
get_task(tid) == IF tid \in Tids /\ tasks[tid].state # "NONE" THEN tid ELSE 0

waitpid_should_skip_child_NoGroup(pos, pid) ==
    IF pid > 0 THEN pos # pid ELSE FALSE

waitpid_should_skip_child(pos, pid) ==
    IF pid > 0 THEN pos # pid
    ELSE IF pid < -1 THEN tasks[pos].pgid # -pid
    ELSE IF pid = 0 THEN tasks[pos].pgid # tasks[Caller].pgid
    ELSE FALSE

\* waitpid_get_changed_task taking a child in any state as changed
waitpid_get_changed_task_AnyState(ti) == ti

waitpid_get_changed_task(ti) ==
    IF tasks[ti].state = "ZOMBIE" THEN ti ELSE 0

\* the list_for_each_ro loop from child i on: <<chtask, child_count>>
RECURSIVE ScanChildren(_, _, _)
ScanChildren(i, pid, count) ==
    IF i > Len(children) THEN <<0, count>>
    ELSE IF waitpid_should_skip_child(children[i], pid)
         THEN ScanChildren(i + 1, pid, count)
    ELSE IF waitpid_get_changed_task(children[i]) # 0
         THEN <<children[i], count + 1>>
    ELSE ScanChildren(i + 1, pid, count + 1)

RemoveFrom(q, x) == SelectSeq(q, LAMBDA y : y # x)

\* task_set_wait_obj: install the wait object, join wait_list, go to sleep
task_set_wait_obj(tk, t, type, ptr, wait_list) ==
    [x \in Tids |->
        IF x = t THEN [tk[x] EXCEPT !.wobj = [type |-> type, ptr |-> ptr,
                                              list |-> wait_list],
                                    !.state = "SLEEPING"]
        ELSE IF x = wait_list
             THEN [tk[x] EXCEPT !.tasks_waiting_list = Append(@, t)]
        ELSE tk[x]]

\* task_reset_wait_obj: drop the wait object, leave its list, become runnable
task_reset_wait_obj(tk, t) ==
    [x \in Tids |->
        IF x = t THEN [tk[x] EXCEPT !.wobj = NoWobj, !.state = "RUNNABLE"]
        ELSE IF x = tk[t].wobj.list
             THEN [tk[x] EXCEPT !.tasks_waiting_list = RemoveFrom(@, t)]
        ELSE tk[x]]

\* remove_task: the reaped zombie leaves the task directory
remove_task(tk, t) == [tk EXCEPT ![t] = NewTask("NONE", 0, 0)]

task_is_waiting_on_multiple_children_AnyPtr(tk, ti) ==
    /\ tk[ti].state = "SLEEPING"
    /\ tk[ti].wobj.type = "TASK"

task_is_waiting_on_multiple_children(tk, ti) ==
    /\ tk[ti].state = "SLEEPING"
    /\ tk[ti].wobj.type = "TASK"
    /\ tk[ti].wobj.ptr < 0

WakeList_StateOnly(tk, ti) ==
    [x \in Tids |->
        IF x \in {tk[ti].tasks_waiting_list[i] :
                     i \in 1..Len(tk[ti].tasks_waiting_list)}
        THEN [tk[x] EXCEPT !.state = "RUNNABLE"]
        ELSE tk[x]]

\* the list_for_each loop of wake_up_tasks_waiting_on
RECURSIVE WakeList(_, _)
WakeList(tk, ti) ==
    IF tk[ti].tasks_waiting_list = <<>> THEN tk
    ELSE WakeList(task_reset_wait_obj(tk, Head(tk[ti].tasks_waiting_list)), ti)

wake_up_tasks_waiting_on(tk, ti) ==
    LET woken == WakeList(tk, ti)
        parent == tk[ti].parent_pid
    IN IF parent > 0 /\ task_is_waiting_on_multiple_children(woken, parent)
       THEN task_reset_wait_obj(woken, parent)
       ELSE woken

\* ghost: the caller's children that the selector pid matches
Matching(pid) == {c \in Range(children) : ~waitpid_should_skip_child(c, pid)}

\* sys_waitpid returns ret to the caller
WReturn(ret, tk) ==
    /\ w' = IdleW
    /\ wlast' = [n |-> wlast.n + 1, pid |-> w.pid, opts |-> w.opts,
                 user |-> w.user, ret |-> ret, chtask |-> w.chtask,
                 nmatch |-> Cardinality(Matching(w.pid)),
                 nzombie |-> w.g_nzombie,
                 intree |-> (w.chtask # 0 /\ tk[w.chtask].state # "NONE"),
                 cstatus |-> w.g_status, nkids |-> w.g_nkids,
                 cpgid |-> w.g_pgid]
    /\ reaped' = IF ret > 0 THEN Append(reaped, ret) ELSE reaped

\* the caller runs: it is the current task
CallerAt(pc) == w.pc = pc

\* the caller enters sys_waitpid(pid, user_wstatus, options)
WaitCall ==
    /\ CallerAt("idle")
    /\ wlast.n < MaxCalls
    /\ \E pid \in PidArgs, user \in UserPtrs, opts \in {0, WNOHANG} :
          w' = [IdleW EXCEPT !.pc = "loop", !.pid = pid, !.user = user,
                             !.opts = opts, !.g_nkids = Len(children)]
    /\ UNCHANGED <<rbvars, termvars, tasks, children, preempt, user_mem, wlast, reaped>>

\* top of the loop: the locals of the iteration; disable_preemption()
WDisable ==
    /\ CallerAt("loop")
    /\ preempt' = preempt + 1
    /\ w' = [w EXCEPT !.pc = "check_pid", !.wait_list = 0, !.child_count = 0]
    /\ UNCHANGED <<rbvars, termvars, tasks, children, user_mem, wlast, reaped>>

WCheckPid_NoParentTest ==
    /\ w.pc = "check_pid"
    /\ IF w.pid > 0 /\ get_task(w.pid) = 0
       THEN /\ preempt' = preempt - 1
            /\ WReturn(-ECHILD, tasks)
       ELSE /\ w' = [w EXCEPT !.pc = "scan",
                              !.wait_list = IF w.pid > 0 THEN w.pid ELSE 0]
            /\ UNCHANGED <<preempt, wlast, reaped>>
    /\ UNCHANGED <<rbvars, termvars, tasks, children, user_mem>>

\* if (pid > 0): the task must exist and be a child of the caller
WCheckPid ==
    /\ CallerAt("check_pid")
    /\ IF w.pid > 0
       THEN LET waited_task == get_task(w.pid)
            IN IF waited_task = 0
                  \/ tasks[waited_task].parent_pid # Caller
               THEN /\ preempt' = preempt - 1
                    /\ WReturn(-ECHILD, tasks)
               ELSE /\ w' = [w EXCEPT !.pc = "scan", !.wait_list = waited_task]
                    /\ UNCHANGED <<preempt, wlast, reaped>>
       ELSE /\ w' = [w EXCEPT !.pc = "scan"]
            /\ UNCHANGED <<preempt, wlast, reaped>>
    /\ UNCHANGED <<rbvars, termvars, tasks, children, user_mem>>

\* the scan of curr->pi->children; if (chtask) break
WScan ==
    /\ CallerAt("scan")
    /\ LET r == ScanChildren(1, w.pid, 0)
       IN w' = [w EXCEPT !.pc = IF r[1] # 0 THEN "copy" ELSE "enable",
                         !.chtask = r[1],
                         !.chtask_tid = IF r[1] # 0 THEN r[1] ELSE @,
                         !.child_count = r[2],
                         !.g_nzombie = Cardinality({c \in Matching(w.pid) :
                                                      tasks[c].state = "ZOMBIE"}),
                         !.g_status = IF r[1] # 0 THEN tasks[r[1]].exit_wstatus
                                                  ELSE -1,
                         !.g_pgid = IF r[1] # 0 THEN tasks[r[1]].pgid ELSE 0]
    /\ UNCHANGED <<rbvars, termvars, tasks, children, preempt, user_mem, wlast, reaped>>

\* enable_preemption() after a scan that found no changed child
WEnable ==
    /\ CallerAt("enable")
    /\ preempt' = preempt - 1
    /\ w' = [w EXCEPT !.pc = "wnohang"]
    /\ UNCHANGED <<rbvars, termvars, tasks, children, user_mem, wlast, reaped>>

WNoHang_Ignored ==
    /\ w.pc = "wnohang"
    /\ w' = [w EXCEPT !.pc = "count"]
    /\ UNCHANGED <<rbvars, termvars, tasks, children, preempt, user_mem, wlast, reaped>>

\* if (options & WNOHANG) return 0
WNoHang ==
    /\ CallerAt("wnohang")
    /\ IF w.opts = WNOHANG
       THEN WReturn(0, tasks)
       ELSE /\ w' = [w EXCEPT !.pc = "count"]
            /\ UNCHANGED <<wlast, reaped>>
    /\ UNCHANGED <<rbvars, termvars, tasks, children, preempt, user_mem>>

WCount_NoCheck ==
    /\ w.pc = "count"
    /\ w' = [w EXCEPT !.pc = "set_wobj"]
    /\ UNCHANGED <<rbvars, termvars, tasks, children, preempt, user_mem, wlast, reaped>>

\* if (!child_count) return -ECHILD
WCount ==
    /\ CallerAt("count")
    /\ IF w.child_count = 0
       THEN WReturn(-ECHILD, tasks)
       ELSE /\ w' = [w EXCEPT !.pc = "set_wobj"]
            /\ UNCHANGED <<wlast, reaped>>
    /\ UNCHANGED <<rbvars, termvars, tasks, children, preempt, user_mem>>

\* task_set_wait_obj(curr, WOBJ_TASK, TO_PTR(pid), wait_list)
WSetWobj ==
    /\ CallerAt("set_wobj")
    /\ tasks' = task_set_wait_obj(tasks, Caller, "TASK", w.pid, w.wait_list)
    /\ w' = [w EXCEPT !.pc = "yield"]
    /\ UNCHANGED <<rbvars, termvars, children, preempt, user_mem, wlast, reaped>>

\* kernel_yield(): returns once the caller is runnable again
WYield ==
    /\ CallerAt("yield")
    /\ tasks[Caller].state = "RUNNABLE"
    /\ w' = [w EXCEPT !.pc = "loop", !.g_wakes = 1]
    /\ UNCHANGED <<rbvars, termvars, tasks, children, preempt, user_mem, wlast, reaped>>

\* copy_to_user(user_wstatus, &chtask->exit_wstatus, sizeof(s32))
WCopyStatus ==
    /\ CallerAt("copy")
    /\ w' = [w EXCEPT !.pc = "remove",
                      !.chtask_tid = IF w.user = "bad" THEN -EFAULT ELSE @]
    /\ user_mem' = IF w.user = "ok" THEN tasks[w.chtask].exit_wstatus
                                    ELSE user_mem
    /\ UNCHANGED <<rbvars, termvars, tasks, children, preempt, wlast, reaped>>

\* if (chtask->state == TASK_STATE_ZOMBIE) remove_task(chtask)
WRemove ==
    /\ CallerAt("remove")
    /\ IF tasks[w.chtask].state = "ZOMBIE"
       THEN /\ tasks' = remove_task(tasks, w.chtask)
            /\ children' = RemoveFrom(children, w.chtask)
       ELSE UNCHANGED <<tasks, children>>
    /\ w' = [w EXCEPT !.pc = "ret"]
    /\ UNCHANGED <<rbvars, termvars, preempt, user_mem, wlast, reaped>>

\* the return of the status, without the enable_preemption() before it
WRet_NoEnable ==
    /\ w.pc = "ret"
    /\ WReturn(w.chtask_tid, tasks)
    /\ UNCHANGED <<rbvars, termvars, tasks, children, preempt, user_mem>>

\* enable_preemption(); return chtask_tid
WRet ==
    /\ CallerAt("ret")
    /\ preempt' = preempt - 1
    /\ WReturn(w.chtask_tid, tasks)
    /\ UNCHANGED <<rbvars, termvars, tasks, children, user_mem>>

\* a child runs its exit path to the end with preemption disabled: it becomes
\* a zombie with its exit status, then wake_up_tasks_waiting_on(it)
TaskExit ==
    /\ preempt = 0
    /\ \E c \in MaybeChildren, st \in ExitStatuses :
          /\ tasks[c].state = "RUNNABLE"
          /\ tasks' = wake_up_tasks_waiting_on(
                         [tasks EXCEPT ![c].state = "ZOMBIE",
                                       ![c].exit_wstatus = st], c)
    /\ UNCHANGED <<rbvars, termvars, children, preempt, w, user_mem, wlast, reaped>>

WaitStep == \/ WDisable \/ WCheckPid \/ WScan \/ WEnable \/ WNoHang
            \/ WCount \/ WSetWobj \/ WYield \/ WCopyStatus \/ WRemove \/ WRet

NextWait == WaitCall \/ WaitStep \/ TaskExit

\* the ring buffer and the terminal queue at rest
QuietRB ==
    /\ rb_s = Stat(0, 0, FALSE)
    /\ rb_buf = [i \in 0..(MaxElems - 1) |-> 0]
    /\ nested_writes = 0
    /\ DEBUG = FALSE
    /\ ctx = <<>>
    /\ panicked = FALSE
    /\ nextId = 1
    /\ accepted = <<>>
    /\ readSeq = <<>>
    /\ dispatched = <<>>

\* the wait protocol at rest: the caller alone, never calling
QuietWait ==
    /\ children = <<>>
    /\ tasks = [t \in Tids |-> IF t = Caller THEN NewTask("RUNNABLE", 0, 1)
                               ELSE NewTask("NONE", 0, 0)]
    /\ preempt = 0
    /\ w = IdleW
    /\ user_mem = -1
    /\ wlast = NoCall
    /\ reaped = <<>>

\* ---------------------------------------------------- specifications
\* the ring buffer alone: nested writers, and a reader that is not reentered
InitSpecRB == InitRB /\ QuietWait /\ QuietTerm

SpecRB == InitSpecRB /\ [][NextRB]_vars

\* the terminal action queue: contexts calling term_execute_or_enqueue_action
SpecTerm == InitSpecRB /\ [][NextTerm]_vars

\* sys_waitpid against tasks that exit
InitSpecWait == InitWait /\ QuietRB /\ QuietTerm

SpecWait == InitSpecWait /\ [][NextWait]_vars

\* the scheduler keeps running the caller while it is runnable
FairSpecWait == SpecWait /\ WF_vars(WaitStep)

\* the rendering engine alone, actions executed one after another
InitSpecRender == InitTerm /\ QuietRB /\ QuietWait

SpecRender == InitSpecRender /\ [][NextRender]_vars

\* ------------------------------------------------------------ claims
Frames == {ctx[i] : i \in 1..Len(ctx)}

IsPermutation(a, b) ==
    /\ Len(a) = Len(b)
    /\ \A x \in {a[i] : i \in 1..Len(a)} \cup {b[i] : i \in 1..Len(b)} :
          Cardinality({i \in 1..Len(a) : a[i] = x})
             = Cardinality({i \in 1..Len(b) : b[i] = x})

\* the pcs of the drain loop of term_execute_or_enqueue_action
DrainPcs == {"r_begin", "r_load_cs", "r_load_ns", "r_copy", "r_cas",
             "e_dispatch"}

\* C1: while a context has popped an action and is dispatching it, no
\* context nested over it is inside the drain loop dispatching an action.
C1_SingleDrainer ==
    \A i \in 1..Len(ctx) : \A j \in 1..Len(ctx) :
        (i < j /\ ctx[i].pc = "e_dispatch") => ctx[j].pc # "e_dispatch"

\* C4: the elements returned by successful reads are the accepted writes in
\* the order of their position advance: a prefix of them at any time, all of
\* them whenever the status word says empty, and the status word counts the
\* ones still unread.
C4_ReadsAreAcceptedFIFO ==
    /\ Len(readSeq) <= Len(accepted)
    /\ readSeq = SubSeq(accepted, 1, Len(readSeq))
    /\ rb_stat_is_empty(rb_s) <=> (readSeq = accepted)
    /\ Unread = IF rb_s.full THEN MaxElems
                ELSE (rb_s.write_pos - rb_s.read_pos + MaxElems) % MaxElems

\* a nested writer advanced the position before the writer it interrupted,
\* and both elements were read back in that order
C4_Witness ==
    /\ Len(readSeq) >= 2
    /\ readSeq = accepted
    /\ readSeq[1] > readSeq[2]

\* C5: a write that has finished reports was_empty = TRUE exactly when it
\* was accepted and no earlier accepted write was unread at the instant of
\* its position advance; a rejected write reports FALSE.
C5_WasEmptyIffNonePending ==
    \A f \in Frames :
        (f.op = "write" /\ f.pc \in {"w_out", "ret"}) =>
            /\ f.ret => (f.was_empty <=> f.g_empty)
            /\ ~f.ret => ~f.was_empty

\* an accepted write found the ring empty after earlier elements were read,
\* while another one, nested over it, found an element pending
C5_Witness ==
    /\ Len(readSeq) >= 1
    /\ \E f \in Frames : /\ f.op = "write" /\ f.pc = "ret"
                         /\ f.ret /\ f.was_empty
    /\ \E f \in Frames : /\ f.op = "write" /\ f.pc = "ret"
                         /\ f.ret /\ ~f.was_empty

\* C6: once every context that called term_execute_or_enqueue_action has
\* returned, no action is left in the queue and every pushed action has been
\* dispatched exactly once.
C6_AllDispatchedOnce ==
    (ctx = <<>> /\ ~panicked) =>
        /\ rb_stat_is_empty(rb_s)
        /\ Len(accepted) = nextId - 1
        /\ IsPermutation(dispatched, accepted)

\* C7: a caller whose push found the queue non-empty never enters the drain
\* loop and returns having popped nothing; a caller whose push found it empty
\* returns only after a pop that found the queue empty.
C7_DrainOnlyIfWasEmpty ==
    \A f \in Frames :
        f.op = "exec" =>
            /\ (f.pc \in DrainPcs) => f.was_empty
            /\ (f.pc = "ret" /\ ~f.was_empty) => f.pops = 0
            /\ (f.pc = "ret" /\ f.was_empty) => ~f.ret

\* a drain owner returns after a failed pop, having dispatched its own action
\* and one pushed by a caller that found the queue non-empty and returned
C7_Witness ==
    \E f \in Frames : /\ f.op = "exec" /\ f.pc = "ret"
                       /\ f.was_empty /\ ~f.ret /\ f.pops >= 2
                       /\ Len(dispatched) >= 2

\* the caller is past a scan that found no changed child and is on its way
\* to task_set_wait_obj (no early return will be taken)
OnBlockingPath ==
    \/ w.pc = "wnohang" /\ w.opts # WNOHANG /\ w.child_count > 0
    \/ w.pc = "count" /\ w.child_count > 0
    \/ w.pc = "set_wobj"

\* C2: a blocking wait(-1, 0) by a caller with one child (g_nkids: the
\* children it had when it called), that child being a zombie now, at
\* whatever point of the wait the child became one, eventually returns that
\* child's id, once, with its exit status delivered and the child gone from
\* the process tree.
C2_BlockingWaitReturnsChild ==
    \A c \in MaybeChildren :
        (/\ w.pc # "idle" /\ w.pid = -1 /\ w.opts = 0 /\ w.user # "bad"
         /\ w.g_nkids = 1 /\ children = <<c>> /\ tasks[c].state = "ZOMBIE")
        ~> (/\ w.pc = "idle" /\ wlast.ret = c
            /\ Cardinality({i \in 1..Len(reaped) : reaped[i] = c}) = 1
            /\ wlast.user = "ok" => user_mem = wlast.cstatus
            /\ get_task(c) = 0 /\ c \notin Range(children))

\* C3: between a scan that found no zombie and the installation of the
\* caller's wait object no matching child has become a zombie.
C3_NoZombieBeforeWaitObj ==
    OnBlockingPath =>
        \A c \in Matching(w.pid) : tasks[c].state # "ZOMBIE"

\* C8: while the caller sleeps in a blocking wait with selector 0, the zombie
\* transition of a child in the caller's own process group wakes the caller.
C8_GroupWaiterWoken ==
    [][\A c \in Range(children) :
          (/\ w.pc = "yield" /\ w.pid = 0
           /\ tasks[Caller].state = "SLEEPING"
           /\ tasks[c].pgid = tasks[Caller].pgid
           /\ tasks[c].state = "RUNNABLE"
           /\ tasks'[c].state = "ZOMBIE")
          => tasks'[Caller].state = "RUNNABLE"]_vars

\* C9: sys_waitpid removes a zombie only when it returns the zombie's id, and
\* after a return of the fault error the zombie is still in the process tree.
C9_FaultKeepsZombie ==
    /\ (w.pc = "ret" /\ tasks[w.chtask].state = "NONE")
          => w.chtask_tid = w.chtask
    /\ (wlast.n > 0 /\ wlast.ret = -EFAULT) => wlast.intree

\* C10: a call that finds no child matching the selector returns "no such
\* child" whatever the options; 0 is returned only when a matching child
\* exists and the scan saw no matching zombie.
C10_NoMatchIsECHILD ==
    wlast.n > 0 =>
        /\ wlast.nmatch = 0 => wlast.ret = -ECHILD
        /\ wlast.ret = 0 => (wlast.nmatch > 0 /\ wlast.nzombie = 0)

\* the caller is awake and has no wait object installed
CallerAwake ==
    /\ tasks[Caller].state = "RUNNABLE"
    /\ tasks[Caller].wobj = NoWobj
    /\ \A t \in Tids : Caller \notin Range(tasks[t].tasks_waiting_list)

\* C11: wait(-1, 0) by a caller that has no children returns "no such child";
\* at no point of the call is the caller asleep, on its way to sleep, or
\* holding a wait object.
C11_NoChildrenIsECHILD ==
    /\ (w.pc # "idle" /\ w.pid = -1 /\ w.opts = 0 /\ w.g_nkids = 0)
          => /\ CallerAwake
             /\ w.pc \in {"loop", "check_pid", "scan", "enable", "wnohang",
                          "count"}
             /\ w.pc = "count" => w.child_count = 0
    /\ (wlast.n > 0 /\ wlast.pid = -1 /\ wlast.opts = 0 /\ wlast.nkids = 0)
          => wlast.ret = -ECHILD

\* wait(-1, 0) with no children has returned "no such child"
C11_Witness ==
    /\ wlast.n > 0 /\ wlast.pid = -1 /\ wlast.opts = 0 /\ wlast.nkids = 0
    /\ wlast.ret = -ECHILD
    /\ w.pc = "idle" /\ CallerAwake

\* C12: a wait with WNOHANG never sleeps and never installs a wait object;
\* when its scan counted at least one matching child and saw no matching
\* zombie it returns 0 and has selected, hence removed, no child.
C12_NoHangReturnsZero ==
    /\ (w.pc # "idle" /\ w.opts = WNOHANG)
          => /\ CallerAwake
             /\ w.pc \notin {"count", "set_wobj", "yield"}
             /\ (w.pc \in {"enable", "wnohang"}) => w.chtask = 0
    /\ (wlast.n > 0 /\ wlast.opts = WNOHANG /\ wlast.nmatch > 0
        /\ wlast.nzombie = 0)
          => (wlast.ret = 0 /\ wlast.chtask = 0)

\* wait(-1, WNOHANG) returned 0 with both children alive and still in the tree
C12_Witness ==
    /\ wlast.n = 1 /\ wlast.pid = -1 /\ wlast.opts = WNOHANG
    /\ wlast.nmatch = 2 /\ wlast.nzombie = 0 /\ wlast.ret = 0
    /\ Len(children) = 2 /\ reaped = <<>>
    /\ w.pc = "idle" /\ CallerAwake

\* C13: with pid > 0, when no task has that id or its parent is not the
\* caller, the step after disable_preemption returns -ECHILD, with the
\* caller awake, no wait object and the process tree as it was.
C13_NotAChildIsECHILD ==
    [][(/\ w.pc = "check_pid" /\ w.pid > 0
        /\ (get_task(w.pid) = 0 \/ tasks[w.pid].parent_pid # Caller))
       => (/\ w'.pc = "idle"
           /\ wlast'.n = wlast.n + 1 /\ wlast'.ret = -ECHILD
           /\ tasks' = tasks /\ children' = children /\ reaped' = reaped
           /\ preempt' = 0
           /\ CallerAwake)]_vars

\* the first call named task 2, which does not exist, and failed
C13_Witness ==
    /\ wlast.n = 1 /\ wlast.pid = 2 /\ wlast.ret = -ECHILD
    /\ tasks[2].state = "NONE" /\ children = <<3>>
    /\ w.pc = "idle"

\* C14: with pid < -1 the child the scan selects, the child that is removed
\* and the id that is returned belong to process group -pid.
C14_GroupSelectorOnlyGroup ==
    /\ (w.pc # "idle" /\ w.pid < -1 /\ w.chtask # 0)
          => /\ w.g_pgid = -w.pid
             /\ w.pc \in {"copy", "remove"}
                   => (/\ w.chtask \in Range(children)
                       /\ tasks[w.chtask].pgid = -w.pid)
    /\ (w.pid < -1 /\ w.pc = "ret")
          => (w.chtask_tid \in {w.chtask, -EFAULT} /\ w.g_pgid = -w.pid)
    /\ (wlast.n > 0 /\ wlast.pid < -1 /\ wlast.ret > 0)
          => (wlast.ret = wlast.chtask /\ wlast.cpgid = -wlast.pid)

\* a wait(-2, ..) reaped the group-2 child while a zombie of group 1, first
\* in the list of children, stayed in the tree
C14_Witness ==
    /\ wlast.n > 0 /\ wlast.pid = -2 /\ wlast.ret = 3 /\ wlast.cpgid = 2
    /\ children = <<2>> /\ tasks[2].state = "ZOMBIE" /\ tasks[2].pgid = 1
    /\ wlast.nkids = 2

\* C15: the zombie transition of t and its wake propagation leave t's waiting
\* list empty and every task that was on it runnable with no wait object;
\* t's parent, when not on that list, is woken exactly when it sleeps on a
\* wait-for-task object with a negative selector, and is untouched otherwise.
C15_WakePropagation ==
    [][\A t \in MaybeChildren :
          (tasks[t].state = "RUNNABLE" /\ tasks'[t].state = "ZOMBIE")
          => LET waiters == Range(tasks[t].tasks_waiting_list)
                 p == tasks[t].parent_pid
             IN /\ tasks'[t].tasks_waiting_list = <<>>
                /\ \A x \in waiters :
                      /\ tasks'[x].state = "RUNNABLE"
                      /\ tasks'[x].wobj = NoWobj
                /\ (p > 0 /\ p \notin waiters)
                      => IF /\ tasks[p].state = "SLEEPING"
                            /\ tasks[p].wobj.type = "TASK"
                            /\ tasks[p].wobj.ptr < 0
                         THEN /\ tasks'[p].state = "RUNNABLE"
                              /\ tasks'[p].wobj = NoWobj
                         ELSE tasks'[p] = tasks[p]]_vars

\* the caller sleeps on wait(2, ..) in child 2's list; child 3 became a
\* zombie and the caller was left asleep
C15_Witness ==
    /\ w.pc = "yield" /\ w.pid = 2
    /\ tasks[Caller].state = "SLEEPING" /\ tasks[Caller].wobj.ptr = 2
    /\ tasks[2].tasks_waiting_list = <<Caller>>
    /\ tasks[3].state = "ZOMBIE" /\ tasks[3].parent_pid = Caller
    /\ tasks[2].state = "RUNNABLE"

\* C16: a task is on at most one waiting list, at most once, and only while
\* it sleeps on a wait-for-task object with a positive selector, which names
\* the task whose list it is on.
C16_OneWaitList ==
    \A t \in Tids :
        LET lists == {x \in Tids : t \in Range(tasks[x].tasks_waiting_list)}
        IN /\ Cardinality(lists) <= 1
           /\ \A x \in lists :
                 /\ Cardinality({i \in 1..Len(tasks[x].tasks_waiting_list) :
                                    tasks[x].tasks_waiting_list[i] = t}) = 1
                 /\ tasks[t].state = "SLEEPING"
                 /\ tasks[t].wobj.type = "TASK"
                 /\ tasks[t].wobj.ptr > 0
                 /\ tasks[t].wobj.ptr = x

\* the caller, woken from child 2's list and back to sleep in a later call,
\* is on child 3's list and on no other
C16_Witness ==
    /\ wlast.n = 1 /\ wlast.pid = 2 /\ wlast.ret = 2
    /\ w.pc = "yield" /\ w.pid = 3
    /\ tasks[3].tasks_waiting_list = <<Caller>>
    /\ tasks[Caller].state = "SLEEPING"

\* a frame of safe_ringbuf_write_elem on the way to a rejection: it entered
\* with the ring full, or it has loaded a full status, or it is leaving with
\* ret = false; st is the status word
Rejecting(f, st) ==
    /\ f.op = "write"
    /\ \/ f.pc \in {"w_begin", "w_load_cs"} /\ st.full
       \/ f.pc = "w_load_ns" /\ f.cs.full
       \/ f.pc = "w_out" /\ ~f.ret

\* C17: a write to a full ring takes no step that changes the status word,
\* a slot or the accepted elements, and stays on the way to returning false
\* (with was_empty false) until it returns.
C17_FullWriteRejected ==
    [][(ctx # <<>> /\ ~panicked /\ Rejecting(Top, rb_s))
       => (/\ rb_s' = rb_s /\ rb_buf' = rb_buf
           /\ accepted' = accepted /\ readSeq' = readSeq
           /\ Len(ctx') >= Len(ctx)
           /\ LET f == ctx'[Len(ctx)]
              IN \/ f = Top
                 \/ Rejecting(f, rb_s')
                 \/ f.pc = "ret" /\ ~f.ret /\ ~f.was_empty)]_vars

\* a write was rejected on a full ring that still holds its two elements
C17_Witness ==
    /\ ctx # <<>> /\ Top.op = "write" /\ Top.pc = "ret" /\ ~Top.ret
    /\ rb_s.full /\ Unread = MaxElems
    /\ \A i \in 1..MaxElems :
          rb_buf[(rb_s.read_pos + i - 1) % MaxElems]
             = accepted[Len(readSeq) + i]

\* C18: the positions stay below the capacity, full implies read_pos =
\* write_pos, and the number of unread elements is the capacity when full is
\* set and (write_pos - read_pos) mod capacity otherwise; so the ring is
\* empty exactly when read_pos = write_pos with full clear.
C18_StatusCountsUnread ==
    /\ rb_s.read_pos \in 0..(MaxElems - 1)
    /\ rb_s.write_pos \in 0..(MaxElems - 1)
    /\ rb_s.full => rb_s.read_pos = rb_s.write_pos
    /\ rb_s.full => Unread = MaxElems
    /\ ~rb_s.full
          => Unread = (rb_s.write_pos - rb_s.read_pos + MaxElems) % MaxElems
    /\ (Unread = 0) <=> (rb_s.read_pos = rb_s.write_pos /\ ~rb_s.full)

\* the positions have wrapped around and the ring is full again
C18_Witness ==
    /\ rb_s.full /\ rb_s.read_pos = 1 /\ rb_s.write_pos = 1
    /\ Len(readSeq) >= 1 /\ Unread = MaxElems

\* C19: a step of safe_ringbuf_read_elem changes the status word only when
\* the read succeeds; the successful read returns the oldest unread element,
\* advances read_pos by one modulo the capacity, clears full and keeps
\* write_pos; a read returns false only on a status it loaded as empty, and
\* if the status word is still that one, nothing is unread.
C19_ReadEmptyOrOldest ==
    [][(ctx # <<>> /\ ~panicked /\ Top.op = "read" /\ Top.pc # "ret")
       => LET f == ctx'[Len(ctx)]
          IN /\ Len(ctx') >= Len(ctx)
             /\ rb_buf' = rb_buf /\ accepted' = accepted
             /\ IF readSeq' # readSeq
                THEN /\ Unread > 0
                     /\ readSeq' = Append(readSeq, accepted[Len(readSeq) + 1])
                     /\ rb_s'.read_pos = (rb_s.read_pos + 1) % MaxElems
                     /\ rb_s'.write_pos = rb_s.write_pos
                     /\ ~rb_s'.full
                     /\ f.pc = "ret" /\ f.ret
                     /\ f.elem = accepted[Len(readSeq) + 1]
                ELSE /\ rb_s' = rb_s
                     /\ f.pc = "ret"
                           => (/\ ~f.ret
                               /\ rb_stat_is_empty(Top.cs)
                               /\ rb_s = Top.cs => Unread = 0)]_vars

\* a read of a full ring returned the oldest element and cleared full
C19_Witness ==
    /\ ctx # <<>> /\ Top.op = "read" /\ Top.pc = "ret" /\ Top.ret
    /\ Len(accepted) = MaxElems /\ Len(readSeq) = 1
    /\ Top.elem = accepted[1]
    /\ rb_s = Stat(1, 0, FALSE)

\* ghost: frames between begin_debug_write_checks and end_debug_write_checks
WritesInFlight ==
    Cardinality({i \in 1..Len(ctx) :
                    ctx[i].pc \in {"w_load_cs", "w_load_ns", "w_cas", "w_copy",
                                   "w_out"}})

\* C20: in a DEBUG build nested_writes counts the writes in flight, a read
\* that starts while it is above zero panics, and so a read runs only with no
\* write below it between its position advance and its copy: every
\* successful read returns the element accepted at its position.
C20_DebugReadDuringWritePanics ==
    [][DEBUG
       => /\ nested_writes = WritesInFlight
          /\ (~panicked /\ ctx # <<>> /\ Top.pc = "r_begin"
              /\ nested_writes > 0)
                => \/ /\ panicked' /\ ctx' = ctx
                      /\ rb_s' = rb_s /\ readSeq' = readSeq
                   \/ \* an interrupt arrives before the read has begun
                      /\ Len(ctx') = Len(ctx) + 1
                      /\ SubSeq(ctx', 1, Len(ctx)) = ctx
                      /\ ~panicked' /\ rb_s' = rb_s /\ readSeq' = readSeq
          /\ (readSeq' # readSeq)
                => (/\ \A i \in 1..Len(ctx) : ctx[i].pc # "w_copy"
                    /\ Len(accepted) >= Len(readSeq')
                    /\ readSeq' = SubSeq(accepted, 1, Len(readSeq')))]_vars

\* a drain loop started by an interrupt nested inside a write panicked
C20_Witness ==
    /\ DEBUG /\ panicked /\ nested_writes > 0
    /\ ctx # <<>> /\ Top.op = "exec" /\ Top.pc = "r_begin" /\ Top.was_empty
    /\ \E i \in 1..(Len(ctx) - 1) :
          ctx[i].pc \in {"w_load_cs", "w_load_ns", "w_cas", "w_copy", "w_out"}

\* C21: a call of term_execute_or_enqueue_action whose push was rejected
\* halts the kernel at VERIFY(written) and goes no further; every call that
\* got past the VERIFY, and every call that returns, had its action accepted
\* by the queue.
C21_RejectedPushHalts ==
    [][/\ (~panicked /\ ctx # <<>> /\ Top.op = "exec"
           /\ Top.pc = "e_verify" /\ ~Top.ret)
          => \/ panicked' /\ ctx' = ctx
             \/ /\ Len(ctx') = Len(ctx) + 1
                /\ SubSeq(ctx', 1, Len(ctx)) = ctx
       /\ \A i \in 1..Len(ctx) :
             (ctx[i].op = "exec" /\ ctx[i].pc \in DrainPcs \cup {"ret"})
                => \E k \in 1..Len(accepted) : accepted[k] = ctx[i].id
       /\ panicked => ctx' = ctx]_vars

\* the third push found the two-slot queue full and the kernel halted
C21_Witness ==
    /\ panicked /\ ctx # <<>> /\ Top.op = "exec" /\ Top.pc = "e_verify"
    /\ ~Top.ret /\ rb_s.full
    /\ \A k \in 1..Len(accepted) : accepted[k] # Top.id

\* C22: the queue holds as many pending actions as it has slots only while
\* at least that many contexts that called term_execute_or_enqueue_action
\* are nested.
C22_FullNeedsNestedContexts ==
    (Unread = MaxElems)
       => Cardinality({i \in 1..Len(ctx) : ctx[i].op = "exec"}) >= MaxElems

\* C23: after any sequence of terminal actions the view stays inside the
\* scrollback: 0 <= scroll <= max_scroll and max_scroll - scroll is at most
\* extra_buffer_rows.
C23_ScrollWithinScrollback ==
    /\ 0 <= scroll /\ scroll <= max_scroll
    /\ max_scroll - scroll <= extra_buffer_rows

\* more lines were written than the scrollback keeps and the view is on
\* the oldest retained line
C23_Witness ==
    /\ nacts > 0 /\ extra_buffer_rows > 0
    /\ max_scroll > extra_buffer_rows
    /\ max_scroll - scroll = extra_buffer_rows

\* C24: once max_scroll exceeds extra_buffer_rows, a scroll-up by at least
\* the distance to the oldest retained line, however large, leaves scroll
\* at max_scroll - extra_buffer_rows, not at 0.
C24_ScrollUpClampsToOldest ==
    [][(/\ nacts' = nacts + 1 /\ last'.kind = "scroll_up"
        /\ max_scroll > extra_buffer_rows
        /\ ~u32_gt(Wide(scroll - (max_scroll - extra_buffer_rows)),
                   last'.arg1))
          => /\ scroll' = max_scroll - extra_buffer_rows
             /\ scroll' > 0
             /\ max_scroll' = max_scroll]_vars

\* a scroll-up by the largest u32 from the bottom of a scrollback that
\* has dropped lines
C24_Witness ==
    /\ last.kind = "scroll_up" /\ last.arg1 = U32Max
    /\ extra_buffer_rows > 0 /\ max_scroll > extra_buffer_rows
    /\ scroll = max_scroll - extra_buffer_rows
    /\ calls # <<>> /\ calls[1].m = "set_row"

\* the cell of the visible grid at (row, col) after the step
CellAfter(row, col) ==
    buffer'[((row + scroll') % total_buffer_rows) * TermCols + col]

\* C25: with tab size 8 and tab marks allocated, a tab written with the
\* cursor in any of columns 0..7 moves the cursor to column 8, and writing
\* 'a', tab, 'b' from column 0 stores 'b' in the cell at column 8.
C25_TabStopsAtColumn8 ==
    [][(/\ nacts' = nacts + 1 /\ last'.kind = "write"
        /\ has_tabs(Cur) /\ vi = "real")
          => /\ (last'.arg1 = <<Ch.tab>> /\ current_col < term_tab_size)
                  => current_col' = term_tab_size
             /\ (last'.arg1 = <<Ch.a, Ch.tab, Ch.b>> /\ current_col = 0)
                  => CellAfter(current_row', term_tab_size)
                        = make_vgaentry(Ch.b, last'.arg2)]_vars

\* C26: with tab marks allocated and column offset 0, an erase written
\* right after a tab returns the cursor to the column it had before the
\* tab, for every starting column, and clears the mark the tab had set.
C26_EraseUndoesTab ==
    [][(/\ nacts' = nacts + 1 /\ last'.kind = "write"
        /\ last'.arg1 = <<Ch.tab, TERM_ERASE_C>>
        /\ has_tabs(Cur) /\ term_col_offset = 0)
          => /\ current_col' = current_col
             /\ current_row' = current_row
             /\ ~term_tabs'[current_row * TermCols
                            + MIN(round_up_at(current_col + 1, term_tab_size),
                                  TermCols - 2)]]_vars

\* the backend calls of the step that are cursor placements
CursorMoves == {i \in 1..Len(calls') : calls'[i].m = "move_cursor"}

\* C27: erase-in-display with mode 3 blanks every visible cell, resets
\* scroll and max_scroll to 0 and leaves the cursor where it was:
\* current_row and current_col are as before the action and the backend
\* cursor is placed there.
C27_EraseAllKeepsCursor ==
    [][(/\ nacts' = nacts + 1 /\ last'.kind = "erase_in_display"
        /\ last'.arg1 = 3)
          => /\ \A r \in 0..(TermRows - 1), c \in 0..(TermCols - 1) :
                   CellAfter(r, c) = make_vgaentry(Ch.space, DefaultColor)
             /\ scroll' = 0 /\ max_scroll' = 0
             /\ current_row' = current_row /\ current_col' = current_col
             /\ \E i \in CursorMoves :
                   /\ \A j \in CursorMoves : j <= i
                   /\ calls'[i].a1 = current_row
                   /\ calls'[i].a2 = current_col]_vars

\* an erase action whose mode is none of the cases of its switch
BadEraseMode(a) ==
    \/ a.kind = "erase_in_display" /\ a.arg1 \notin 0..3
    \/ a.kind = "erase_in_line" /\ a.arg1 \notin 0..2

\* C28: erase-in-display with a mode outside 0..3 and erase-in-line with a
\* mode outside 0..2 change nothing (buffer, cursor, scroll, max_scroll,
\* tab marks) and call no backend method, not even flush_buffers.
C28_BadEraseModeIsNoOp ==
    [][(nacts' = nacts + 1 /\ BadEraseMode(last'))
          => /\ UNCHANGED <<buffer, current_row, current_col, term_col_offset,
                            scroll, max_scroll, term_tabs, vi, saved_vi>>
             /\ calls' = <<>>
             /\ ~term_fault']_vars

\* an erase-in-line with mode 3 arrives after text was written, on a
\* backend that has flush_buffers
C28_Witness ==
    /\ last.kind = "erase_in_line" /\ last.arg1 = 3
    /\ vi = "real" /\ "flush_buffers" \in vi_caps
    /\ current_col > 0 /\ calls = <<>>
    /\ buffer[current_col - 1] = make_vgaentry(Ch.a, AltColor)

\* the action kinds that call into the video backend
BackendKinds ==
    {"write", "scroll_up", "scroll_down", "move_ch_and_cur",
     "move_ch_and_cur_rel", "reset", "erase_in_display", "erase_in_line",
     "non_buf_scroll_up", "non_buf_scroll_down"}

\* C29: for every action kind that calls into the video backend (write,
\* scroll up/down, cursor moves, reset, erase with a valid mode,
\* non-buffered scroll up/down), when the backend provides flush_buffers
\* the last backend call made by the action is flush_buffers.
C29_ActionsEndWithFlush ==
    (/\ last.kind \in BackendKinds /\ ~BadEraseMode(last)
     /\ vi = "no_output" \/ "flush_buffers" \in vi_caps)
       => /\ calls # <<>>
          /\ calls[Len(calls)].m = "flush_buffers"

\* the step redraws every visible row on the real backend
RedrawnOnReal ==
    \A r \in 0..(TermRows - 1) :
       \E i \in 1..Len(calls') :
          /\ calls'[i].vi = "real" /\ calls'[i].m = "set_row"
          /\ calls'[i].a1 = r
          /\ calls'[i].a2 = (r + scroll') % total_buffer_rows

\* C30: for any sequence of pause and restart actions starting with the
\* real backend active, no method of the real backend is called while
\* paused, and after a restart the active backend is the real one again,
\* with the visible grid redrawn from the scrollback buffer.
C30_PauseRestartRestoresBackend ==
    [][(nacts' = nacts + 1)
          => /\ (vi = "no_output" /\ last'.kind # "restart_video_output")
                  => \A i \in 1..Len(calls') : calls'[i].vi # "real"
             /\ last'.kind = "restart_video_output"
                  => /\ ~term_fault'
                     /\ vi' = "real"
                     /\ RedrawnOnReal]_vars

\* the actions whose handler has finished
Finished == {dispatched[k] : k \in 1..Len(dispatched)}

\* the actions pushed before action e, in the order of the pushes
PushedBefore(e) ==
    {accepted[k] : k \in {n \in 1..Len(accepted) :
                            \E m \in (n + 1)..Len(accepted) : accepted[m] = e}}

\* C31: terminal actions take effect in the order of their pushes: while
\* the handler of an action runs, the handler of every action pushed
\* before it has finished, under every interleaving of interrupt contexts.
C31_HandlersInPushOrder ==
    \A i \in 1..Len(ctx) :
       (ctx[i].op = "exec" /\ ctx[i].pc = "e_dispatch")
          => PushedBefore(ctx[i].elem) \subseteq Finished

\* the caller's children that the selector matches and that are zombies
MatchingZombies ==
    {c \in Matching(w.pid) : tasks[c].state = "ZOMBIE"}

\* C32: wait returns a child id only for a child that matched the selector
\* and was seen as a zombie by the scan right before the return; a waiter
\* woken while no matching child is a zombie scans again and blocks again
\* instead of returning.
C32_ReturnsOnlyScannedZombie ==
    [][(w' # w)
          => /\ (w'.pc = "copy" /\ w.pc # "copy")
                  => /\ w.pc = "scan"
                     /\ w'.chtask \in MatchingZombies
                     /\ w'.chtask_tid = w'.chtask
             /\ (w.pc \in {"copy", "remove", "ret"})
                  => /\ w'.pc \in {"remove", "ret", "idle"}
                     /\ w'.pc # "idle" => w'.chtask = w.chtask
             /\ (w'.pc = "idle" /\ w.pc # "idle" /\ wlast'.ret > 0)
                  => /\ w.pc = "ret"
                     /\ wlast'.ret = w.chtask
             /\ (w.g_wakes > 0 /\ w.pc = "scan" /\ MatchingZombies = {})
                  => w'.pc = "enable"
             /\ (w.g_wakes > 0 /\ w.pc \in {"enable", "wnohang", "count"}
                    /\ w.child_count > 0)
                  => w'.pc \in {"wnohang", "count", "set_wobj"}
             /\ (w.g_wakes > 0 /\ w.pc = "set_wobj")
                  => /\ w'.pc = "yield"
                     /\ tasks'[Caller].state = "SLEEPING"]_vars

\* a waiter on group 2 was woken by the exit of its child of group 1
\* and sleeps again, its child of group 2 still running
C32_Witness ==
    /\ w.pc = "yield" /\ w.g_wakes > 0 /\ w.pid = -2
    /\ tasks[Caller].state = "SLEEPING"
    /\ MatchingZombies = {} /\ Matching(w.pid) # {}
    /\ \E c \in Range(children) :
          tasks[c].state = "ZOMBIE" /\ tasks[c].pgid # 2

\* the methods of the backend calls the step made
CalledAfter == {calls'[i].m : i \in 1..Len(calls')}

C34_CursorInsideGrid ==
    /\ 0 <= current_row /\ current_row < TermRows
    /\ 0 <= current_col /\ current_col < TermCols

\* a letter written in the last column of the last row wrapped: the cursor
\* is at column 0 and the row was scrolled
C34_Witness ==
    /\ last.kind = "write" /\ last.arg1 = <<Ch.a>>
    /\ current_col = 0 /\ current_row = TermRows - 1 /\ max_scroll > 0
    /\ \E i \in 1..Len(calls) :
          /\ calls[i].m = "set_char_at"
          /\ calls[i].a1 = TermRows - 1 /\ calls[i].a2 = TermCols - 1

\* C35: a scroll-down never moves the view toward older lines: for every
\* value of its 32-bit lines argument scroll afterwards is >= scroll
\* before, and any lines >= max_scroll - scroll brings the view to the
\* live bottom (scroll = max_scroll).
C35_ScrollDownNeverGoesBack ==
    [][(nacts' = nacts + 1 /\ last'.kind = "scroll_down")
          => /\ scroll' >= scroll
             /\ max_scroll' = max_scroll
             /\ ~u32_gt(Wide(max_scroll - scroll), last'.arg1)
                   => scroll' = max_scroll]_vars

\* where sys_waitpid runs between disable_preemption and enable_preemption
PreemptOffPcs == {"check_pid", "scan", "enable", "copy", "remove", "ret"}

\* C36: the disable/enable calls of sys_waitpid are balanced on every
\* path: each return and each block-and-yield leaves the preemption depth
\* at its value on entry (0), and preemption is disabled throughout the
\* status copy and the removal of the zombie.
C36_PreemptionBalanced ==
    /\ w.pc \in PreemptOffPcs => preempt = 1
    /\ w.pc \notin PreemptOffPcs => preempt = 0
    /\ w.pc \in {"copy", "remove"} => preempt > 0

\* two calls returned, the first with a reaped child, the second with
\* EFAULT from the status copy, and the depth is back at 0
C36_Witness ==
    /\ w.pc = "idle" /\ wlast.n = MaxCalls /\ preempt = 0
    /\ wlast.ret = -EFAULT /\ reaped # <<>>

====
